---- MODULE Spec2Model ----
(***************************************************************************)
(* The deck-generation pipeline of SlideSmith: POST /api/generate-deck     *)
(* (src/src/app/api/generate-deck/route.ts), the generators it calls       *)
(* (src/src/lib/deck-generator.ts) and the LLM client (src/unnamed/        *)
(* part_000).                                                              *)
(*                                                                         *)
(* JavaScript numbers are modelled as integers that count halves: the      *)
(* request schema is z.number() with no .int(), so 3.5 is a slide_count    *)
(* the handler accepts.  Whole(3) is 3, Whole(3) + 1 is 3.5.               *)
(* Strings are TLA+ strings; an error message is the sequence of its       *)
(* words, so that String.includes can be modelled on it.                   *)
(***************************************************************************)
EXTENDS Integers, Sequences, FiniteSets, TLC

VARIABLES
    clients,      \* the requests that are sent in this behaviour
    llm,          \* the answers the LLM service gives in this behaviour
    request,      \* request[r]: the body of r, until the handler has read it
    pc,           \* pc[r]: the await the handler of r is suspended at
    meta,         \* route.ts:115  the normalised metadata of r
    topic,        \* route.ts:136  topic_or_prompt || instructions || ''
    docSummary,   \* route.ts:124
    outline,      \* route.ts:131  the outline the slot loop walks
    currentSlide, \* route.ts:175
    draft,        \* route.ts:184  the draft of the slot being processed
    slides,       \* route.ts:172
    response,     \* the NextResponse of r
    inflight,     \* inflight[r]: LLM calls of r started and not yet answered
    llmCalls,     \* history: LLM calls r has started
    parsedDocs,   \* history: parseDocuments was called for r
    failed,       \* history: the slots of r whose generation timed out or threw
    slideFacts,   \* history: the per-slide facts generateSlide was given for r
    log,          \* history: the body and the LLM answers r has consumed
    params,       \* a direct call of generateOutline: its argument,
    reply,        \*   what the LLM answers it,
    result        \*   and what it settles with

vars == <<clients, llm, request, pc, meta, topic, docSummary, outline, currentSlide,
          draft, slides, response, inflight, llmCalls, parsedDocs, failed,
          slideFacts, log, params, reply, result>>

routeVars == <<clients, llm, request, pc, meta, topic, docSummary, outline,
               currentSlide, draft, slides, response, inflight, llmCalls,
               parsedDocs, failed, slideFacts, log>>

callVars == <<params, reply, result>>

(***************************************************************************)
(* Bounds of the model and constants of the program.                       *)
(***************************************************************************)
\* Requests ask for fewer than MaxSlideCount + 1 slides.
MaxSlideCount == 3
\* The LLM puts at most this many slides in an outline.
MaxOutlineSlides == 4
\* A direct call of generateOutline asks for at most this many slides.
MaxCallCount == 6
\* The most slides of an outline the LLM answers a direct call of
\* generateOutline with.
MaxCallOutlineSlides == 6

\* The texts of pieces given to cleanJSONResponse have at most MaxBodyTokens
\* pieces.
MaxBodyTokens == 3

MinSlideCount == 3
MaxSchemaSlideCount == 50
DefaultSlideCount == 10

Reqs == {"r1", "r2"}

(***************************************************************************)
(* Numbers.                                                                *)
(***************************************************************************)
Whole(n) == 2 * n

IsWhole(x) == x % 2 = 0

Min(a, b) == IF a <= b THEN a ELSE b

Max(a, b) == IF a >= b THEN a ELSE b

\* ToIntegerOrInfinity: the fraction is dropped, towards zero.
Trunc(x) == IF x >= 0 THEN x \div 2 ELSE -((-x) \div 2)

\* ToLength, as Array.from({ length: x }) applies it.
ToLength(x) == Max(Trunc(x), 0)

\* The number of rounds of  for (let i = 0; i < needed; i++).
LoopCount(needed) == IF needed <= 0 THEN 0 ELSE (needed + 1) \div 2

\* Array.prototype.slice(0, end) with a number end.
Slice(s, end) ==
    LET relEnd == Trunc(end)
        final  == IF relEnd < 0 THEN Max(Len(s) + relEnd, 0)
                                ELSE Min(relEnd, Len(s))
    IN  SubSeq(s, 1, final)

RECURSIVE Join(_, _)
\* Array.prototype.join(sep) on strings.
Join(words, sep) ==
    IF Len(words) = 0 THEN ""
    ELSE IF Len(words) = 1 THEN words[1]
    ELSE words[1] \o sep \o Join(Tail(words), sep)

\* String.includes(w), for a message held as its words.
Includes(message, w) == \E i \in 1..Len(message) : message[i] = w

(***************************************************************************)
(* The request body and GenerateDeckRequestSchema.                         *)
(***************************************************************************)
Absent == "<absent>"

Modes == {"quick_prompt", "doc_to_deck"}

Tones == {"professional", "casual", "academic", "persuasive"}

Audiences == {"general", "executives", "technical", "students"}

Themes == {"deep_space", "ultra_violet", "minimal", "corporate"}

Number(x) == [kind |-> "number", value |-> x]

NoNumber == [kind |-> "absent", value |-> 0]

NotANumber == [kind |-> "string", value |-> 0]

\* A document URL of a request.
DocUrl == "https://files.example/docs/report.pdf"

BaseBody ==
    [ wellformed      |-> TRUE,
      mode            |-> "quick_prompt",
      topic_or_prompt |-> "AI",
      instructions    |-> Absent,
      tone            |-> "professional",
      audience        |-> "general",
      slide_count     |-> Number(Whole(MinSlideCount)),
      theme           |-> "deep_space",
      live_widgets    |-> "false",
      has_doc_urls    |-> FALSE,
      doc_urls        |-> <<>> ]

\* The slide counts a body may carry: the halves from 2 up to (not
\* including) MaxSlideCount + 1, two values above the schema's maximum, no
\* count and a string.
SlideCounts ==
    {Number(x) : x \in (Whole(MinSlideCount) - 2)..(Whole(MaxSlideCount) + 1)}
    \cup {Number(Whole(MaxSchemaSlideCount) + 1), Number(Whole(MaxSchemaSlideCount + 1))}
    \cup {NotANumber}

\* The values a client may put in each field of the body.
FieldValues ==
    [ wellformed      |-> BOOLEAN,
      mode            |-> Modes \cup {"slides", Absent},
      topic_or_prompt |-> {"AI", Absent},
      instructions    |-> {"from my notes", Absent},
      tone            |-> {"professional", "angry", Absent},
      audience        |-> {"general", "robots", Absent},
      slide_count     |-> SlideCounts,
      theme           |-> {"deep_space", "minimal", "neon", Absent},
      live_widgets    |-> {"false", "yes", Absent},
      has_doc_urls    |-> BOOLEAN,
      doc_urls        |-> {<<>>, <<DocUrl>>} ]

Fields == DOMAIN BaseBody

\* The bodies the clients send: BaseBody with at most one field changed, and
\* the request that carries document URLs, in either mode.
Bodies ==
    UNION {{[BaseBody EXCEPT ![f] = v] : v \in FieldValues[f]} : f \in Fields}
    \cup {[BaseBody EXCEPT !.mode = m, !.has_doc_urls = TRUE, !.doc_urls = u] :
              m \in Modes, u \in {<<>>, <<DocUrl>>}}

\* The schema with slide_count: z.number().max(50), its .min(3) left out.
SchemaIssuesNoMin(b) ==
    {f \in {"mode"} : b.mode \notin Modes}
    \cup {f \in {"tone"} : b.tone # Absent /\ b.tone \notin Tones}
    \cup {f \in {"audience"} : b.audience # Absent /\ b.audience \notin Audiences}
    \cup {f \in {"theme"} : b.theme # Absent /\ b.theme \notin Themes}
    \cup {f \in {"live_widgets"} : b.live_widgets \notin {"true", "false", Absent}}
    \cup {f \in {"slide_count"} :
              \/ b.slide_count.kind = "string"
              \/ /\ b.slide_count.kind = "number"
                 /\ b.slide_count.value > Whole(MaxSchemaSlideCount)}

\* The fields zod reports (error.errors[i].path) for a parsed body.
SchemaIssues(b) ==
    {f \in {"mode"} : b.mode \notin Modes}
    \cup {f \in {"tone"} : b.tone # Absent /\ b.tone \notin Tones}
    \cup {f \in {"audience"} : b.audience # Absent /\ b.audience \notin Audiences}
    \cup {f \in {"theme"} : b.theme # Absent /\ b.theme \notin Themes}
    \cup {f \in {"live_widgets"} : b.live_widgets \notin {"true", "false", Absent}}
    \cup {f \in {"slide_count"} :
              \/ b.slide_count.kind = "string"
              \/ /\ b.slide_count.kind = "number"
                 /\ \/ b.slide_count.value < Whole(MinSlideCount)
                    \/ b.slide_count.value > Whole(MaxSchemaSlideCount)}

Default(v, d) == IF v = Absent THEN d ELSE v

\* GenerateDeckRequestSchema.parse(body) for a body without issues, and the
\* meta object built from it.
Normalize(b) ==
    [ slide_count  |-> IF b.slide_count.kind = "absent"
                       THEN Whole(DefaultSlideCount) ELSE b.slide_count.value,
      audience     |-> Default(b.audience, "general"),
      tone         |-> Default(b.tone, "professional"),
      theme        |-> Default(b.theme, "deep_space"),
      live_widgets |-> Default(b.live_widgets, "false") ]

\* a || b || '' on optional strings.
TopicOf(b) ==
    IF b.topic_or_prompt \notin {Absent, ""} THEN b.topic_or_prompt
    ELSE IF b.instructions \notin {Absent, ""} THEN b.instructions
    ELSE ""

(***************************************************************************)
(* Outlines, and what the LLM may answer the outline prompt.               *)
(***************************************************************************)
RECURSIVE Sum(_)
Sum(s) == IF Len(s) = 0 THEN 0 ELSE Head(s) + Sum(Tail(s))

\* The section names of the prompt's OUTPUT FORMAT; the LLM answers with a
\* prefix of them.
SectionNames == <<"Hook & Context", "Deep Dive">>

LLMSlot(name, i) ==
    [ title   |-> name \o " " \o ToString(i),
      layout  |-> IF i = 2 THEN "chart" ELSE "title_bullets",
      section |-> name ]

\* A section of the LLM's answer with n slides; n = -1: with no slides key.
LLMSection(name, n) ==
    [ name       |-> name,
      has_slides |-> n >= 0,
      slides     |-> [i \in 1..Max(n, 0) |-> LLMSlot(name, i)] ]

\* The slide counts of the sections of an LLM outline of at most most slides.
ShapesUpTo(most) ==
    {sh \in UNION {[1..k -> (-1)..most] : k \in 0..Len(SectionNames)} :
        Sum([i \in 1..Len(sh) |-> Max(sh[i], 0)]) <= most}

Shapes == ShapesUpTo(MaxOutlineSlides)

LLMTitle == "**AI Revolution**: Transforming Healthcare"

\* kind "error": generateContent rejects (the service cannot be reached, the
\* provider answers an error, the client's own abort); "text": the content is
\* no JSON after cleaning; "no_sections": JSON with no sections member;
\* "bad_sections": JSON whose sections member is no array; "outline": JSON
\* with a sections array.
RepliesOf(shapes) ==
    {[kind |-> k, title |-> "", sections |-> <<>>] :
         k \in {"error", "text", "no_sections", "bad_sections"}}
    \cup {[kind |-> "outline", title |-> LLMTitle,
           sections |-> [i \in 1..Len(sh) |-> LLMSection(SectionNames[i], sh[i])]] :
              sh \in shapes}

OutlineReplies == RepliesOf(Shapes)

NoReply == [kind |-> "error", title |-> "", sections |-> <<>>]

\* sections.reduce((sum, section) => sum + (section.slides?.length || 0), 0)
TotalSlides(sections) ==
    Sum([i \in 1..Len(sections) |->
            IF sections[i].has_slides THEN Len(sections[i].slides) ELSE 0])

\* The slots in the order the route's two loops visit them.
RECURSIVE Slots(_)
Slots(sections) ==
    IF Len(sections) = 0 THEN <<>>
    ELSE sections[1].slides \o Slots(Tail(sections))

\* The slides both reconciliations push: 'Additional Key Point 1..count'.
AdditionalSlides(name, count) ==
    [i \in 1..count |->
        [ title   |-> "Additional Key Point " \o ToString(i),
          layout  |-> "title_bullets",
          section |-> name ]]

Threw == [threw |-> TRUE, value |-> [title |-> "", sections |-> <<>>]]

Returned(v) == [threw |-> FALSE, value |-> v]

\* lastSection.slides = lastSection.slides.slice(0, length - toRemove)
RemoveFromLast(sections, toRemove) ==
    LET n == Len(sections)
    IN  [sections EXCEPT ![n].slides =
            Slice(sections[n].slides, Whole(Len(sections[n].slides)) - toRemove)]

\* lastSection.slides = [...] in place of lastSection.slides.push(...): the
\* slides the last section held are lost.
AddToLastReplacing(sections, needed) ==
    LET n == Len(sections)
    IN  [sections EXCEPT ![n].slides =
            AdditionalSlides(sections[n].name, LoopCount(needed))]

\* for (i < needed) lastSection.slides.push(...)
AddToLast(sections, needed) ==
    LET n == Len(sections)
    IN  [sections EXCEPT ![n].slides =
            sections[n].slides \o AdditionalSlides(sections[n].name, LoopCount(needed))]

\* The try block of generateOutline: what it returns, or that it threw.
OutlineTry(p, rp) ==
    LET n           == Len(rp.sections)
        totalSlides == Whole(TotalSlides(rp.sections))
        noLast      == rp.kind = "no_sections" \/ n = 0 \/ ~rp.sections[n].has_slides
        parsed      == [title |-> rp.title, sections |-> rp.sections]
    IN  IF rp.kind \in {"error", "text", "bad_sections"} THEN Threw
        ELSE IF totalSlides < p.slide_count
        THEN IF noLast THEN Threw
             ELSE Returned([parsed EXCEPT !.sections =
                               AddToLast(rp.sections, p.slide_count - totalSlides)])
        ELSE IF totalSlides > p.slide_count
        THEN IF noLast THEN Threw
             ELSE Returned([parsed EXCEPT !.sections =
                               RemoveFromLast(rp.sections, totalSlides - p.slide_count)])
        ELSE IF rp.kind = "no_sections" THEN Threw
        ELSE Returned(parsed)

\* The catch block of generateOutline.
OutlineFallback(p) ==
    LET tpc            == p.topic_or_prompt_or_instructions
        openingSlides  == Min(Whole(2), p.slide_count)
        remaining1     == p.slide_count - openingSlides
        analysisSlides == Max(Whole(1), remaining1 - Whole(2))
        remaining2     == remaining1 - analysisSlides
        opening ==
            [ name |-> "Opening", has_slides |-> TRUE,
              slides |-> [i \in 1..ToLength(openingSlides) |->
                  [ title   |-> IF i = 1 THEN "**" \o tpc \o "**: What You Need to Know"
                                         ELSE "Current State & Trends",
                    layout  |-> "title_bullets",
                    section |-> "Opening" ]] ]
        analysis ==
            [ name |-> "Analysis", has_slides |-> TRUE,
              slides |-> [i \in 1..ToLength(analysisSlides) |->
                  [ title   |-> IF i = 1 THEN "Key Challenges & Opportunities"
                                ELSE IF i = 2 THEN "Data-Driven Insights"
                                ELSE "Key Point " \o ToString(i),
                    layout  |-> IF i = 2 /\ analysisSlides > Whole(1)
                                THEN "chart" ELSE "title_bullets",
                    section |-> "Analysis" ]] ]
        conclusion ==
            [ name |-> "Conclusion", has_slides |-> TRUE,
              slides |-> [i \in 1..ToLength(remaining2) |->
                  [ title   |-> IF i = 1 THEN "Impact & Results"
                                         ELSE "Next Steps & Takeaways",
                    layout  |-> "title_bullets",
                    section |-> "Conclusion" ]] ]
    IN  [ title    |-> "**" \o tpc \o "**: Key Insights & Analysis",
          sections |-> <<opening, analysis>>
                       \o (IF remaining2 > 0 THEN <<conclusion>> ELSE <<>>) ]

Resolved(v) == [status |-> "resolved", value |-> v]

Rejected == [status |-> "rejected", value |-> [title |-> "", sections |-> <<>>]]

\* generateOutline with a catch block that rethrows.
generateOutlineRethrows(p, rp) ==
    LET t == OutlineTry(p, rp)
    IN  IF t.threw THEN Rejected ELSE Resolved(t.value)

\* generateOutline(params), the LLM answering rp: the promise it returns
\* settles with.
generateOutline(p, rp) ==
    LET t == OutlineTry(p, rp)
    IN  IF t.threw THEN Resolved(OutlineFallback(p)) ELSE Resolved(t.value)

(***************************************************************************)
(* generateSlide, generateVisual and the stubs of deck-generator.ts.       *)
(***************************************************************************)
\* What the LLM may answer the slide prompt: "json" a slide object, "error"
\* generateContent rejects, "text" content that is no JSON.
SlideReplies == {"json", "error", "text"}

\* What the LLM may answer the visual prompt; "null" is the JSON text null.
VisualReplies == {"json", "null", "error", "text"}

ThisYear == "<year>"

LastYear == "<year - 1>"

\* A slot title that is a JSON number: a value that is no string and is
\* truthy; template literals render it "42".
NumberTitle == "<number 42>"

IsString(v) == v \notin {Absent, NumberTitle}

\* `${v}`
Rendered(v) ==
    IF v = Absent THEN "undefined" ELSE IF v = NumberTitle THEN "42" ELSE v

\* v || d
OrElse(v, d) == IF v \in {Absent, ""} THEN d ELSE v

\* The characters \w matches.
WordChars ==
    {"a", "b", "c", "d", "e", "f", "g", "h", "i", "j", "k", "l", "m", "n", "o", "p",
     "q", "r", "s", "t", "u", "v", "w", "x", "y", "z", "A", "B", "C", "D", "E", "F",
     "G", "H", "I", "J", "K", "L", "M", "N", "O", "P", "Q", "R", "S", "T", "U", "V",
     "W", "X", "Y", "Z", "0", "1", "2", "3", "4", "5", "6", "7", "8", "9", "_"}

\* str.replace(/[^\w\s]/g, '') of the first i characters of str.
RECURSIVE RemoveSpecialChars(_, _)
RemoveSpecialChars(str, i) ==
    IF i = 0 THEN ""
    ELSE RemoveSpecialChars(str, i - 1)
         \o (IF SubSeq(str, i, i) \in WordChars \cup {" "} THEN SubSeq(str, i, i) ELSE "")

\* str.split(sep) for a separator of one character, read from the i-th
\* character on, cur being the piece read so far.
RECURSIVE Split(_, _, _, _)
Split(str, sep, i, cur) ==
    IF i > Len(str) THEN <<cur>>
    ELSE IF SubSeq(str, i, i) = sep
    THEN <<cur>> \o Split(str, sep, i + 1, "")
    ELSE Split(str, sep, i + 1, cur \o SubSeq(str, i, i))

\* encodeURIComponent of the first i characters of str, on word characters,
\* spaces and commas.
RECURSIVE encodeURIComponent(_, _)
encodeURIComponent(str, i) ==
    IF i = 0 THEN ""
    ELSE encodeURIComponent(str, i - 1)
         \o (IF SubSeq(str, i, i) = "," THEN "%2C"
             ELSE IF SubSeq(str, i, i) = " " THEN "%20"
             ELSE SubSeq(str, i, i))

\* generateUnsplashUrl(topic) for a string topic.
generateUnsplashUrl(tpc) ==
    LET keywords   == Join(Slice(SelectSeq(Split(RemoveSpecialChars(tpc, Len(tpc)), " ", 1, ""),
                                           LAMBDA word : Len(word) > 3),
                                 Whole(3)), ",")
        searchTerm == OrElse(keywords, "business,presentation,professional")
    IN  "https://source.unsplash.com/800x600/?"
        \o encodeURIComponent(searchTerm, Len(searchTerm))

generateCitations(tpc) ==
    << "Industry research on " \o tpc \o ", " \o ThisYear,
       "Market analysis and trends, " \o LastYear \o "-" \o ThisYear >>

\* An image object; source Absent: the object has no source member.
Image(prompt, alt, source) ==
    [kind |-> "object", prompt |-> prompt, alt |-> alt, source |-> source]

\* No image member, and an image member that is a string.
NoImage == [kind |-> "absent", prompt |-> "", alt |-> "", source |-> Absent]

StringImage == [kind |-> "string", prompt |-> "", alt |-> "", source |-> Absent]

\* The slide object the LLM writes for a slot.
LLMDraft(slot) ==
    [ title      |-> "**LLM** " \o Rendered(slot.title),
      bullets    |-> <<"**Bold term**: specific detail with data">>,
      notes      |-> "",
      chart_spec |-> "null",
      citations  |-> <<>>,
      image      |-> Image("Professional diagram showing...", "Diagram of...",
                           "https://images.example/diagram.png") ]

NoDraft == [title |-> "", bullets |-> <<>>, notes |-> "", chart_spec |-> "null",
            citations |-> <<>>, image |-> NoImage]

\* What the LLM may answer the slide prompt of a direct call: the slide
\* object as the prompt asks for it ("json"), without image, with an image
\* without source, with an empty or the 'placeholder' source, with a string
\* for image, the JSON text null, and the two failures.
SlideCallReplies ==
    {"json", "json_no_image", "json_no_source", "json_empty_source",
     "json_placeholder", "json_string_image", "json_null", "error", "text"}

\* JSON.parse(cleaned) for the answers that are a JSON object.
LLMSlideJSON(slot, rp) ==
    LET d == LLMDraft(slot)
    IN  [d EXCEPT !.image =
            CASE rp = "json_no_image"     -> NoImage
              [] rp = "json_no_source"    -> [d.image EXCEPT !.source = Absent]
              [] rp = "json_empty_source" -> [d.image EXCEPT !.source = ""]
              [] rp = "json_placeholder"  -> [d.image EXCEPT !.source = "placeholder"]
              [] rp = "json_string_image" -> StringImage
              [] OTHER                    -> d.image]

SlideThrew == [threw |-> TRUE, value |-> NoDraft]

RejectedSlide == [status |-> "rejected", value |-> NoDraft]

\* The try block of generateSlide with the image post-processing left out:
\* what was parsed is returned.
SlideTryUnprocessed(slot, rp) ==
    IF rp \in {"error", "text", "json_null"} THEN SlideThrew
    ELSE Returned(LLMSlideJSON(slot, rp))

\* The try block of generateSlide: what it returns, or that it threw.  A
\* title that is no string makes generateUnsplashUrl throw, and so does, in
\* a module (strict code), setting source on an image that is a string.
SlideTry(slot, rp) ==
    LET parsed == LLMSlideJSON(slot, rp)
        title  == slot.title
    IN  IF rp \in {"error", "text", "json_null"} THEN SlideThrew
        ELSE IF parsed.image.kind = "absent"
        THEN IF ~IsString(title) THEN SlideThrew
             ELSE Returned([parsed EXCEPT !.image =
                     Image("Professional " \o title \o " diagram with modern, clean design",
                           "Visual representation of " \o title,
                           generateUnsplashUrl(title))])
        ELSE IF parsed.image.source \in {Absent, "", "placeholder"}
        THEN IF ~IsString(title) \/ parsed.image.kind = "string" THEN SlideThrew
             ELSE Returned([parsed EXCEPT !.image.source = generateUnsplashUrl(title)])
        ELSE Returned(parsed)

\* The slide the catch block of generateSlide returns.
SlideFallback(slot) ==
    LET tpc == OrElse(slot.title, "Key Concepts")
    IN  [ title      |-> "**" \o Rendered(tpc) \o "**: Overview",
          bullets    |-> << "**Core Concept**: " \o Rendered(tpc) \o " fundamentals",
                            "**Key Metrics**: Measurable outcomes",
                            "**Innovation**: Latest developments" >>,
          notes      |-> "",
          chart_spec |-> "null",
          citations  |-> generateCitations(Rendered(tpc)),
          image      |-> Image("Modern infographic showing " \o Rendered(tpc)
                                  \o " with icons, arrows, and data visualizations in a clean, professional style",
                               Rendered(tpc) \o " concept diagram",
                               generateUnsplashUrl(tpc)) ]

\* The catch block of generateSlide: generateUnsplashUrl(topic) throws for
\* a topic that is no string.
SlideCatch(slot) ==
    IF ~IsString(OrElse(slot.title, "Key Concepts")) THEN SlideThrew
    ELSE Returned(SlideFallback(slot))

\* generateSlide({slide_context: slot, ...}), the LLM answering rp: what the
\* promise it returns settles with.
generateSlide(slot, facts, rp) ==
    LET t == SlideTry(slot, rp)
        c == SlideCatch(slot)
    IN  IF ~t.threw THEN Resolved(t.value)
        ELSE IF c.threw THEN RejectedSlide
        ELSE Resolved(c.value)

NullVisual == [isNull |-> TRUE, prompt |-> "", alt |-> ""]

\* generateVisual(params), the LLM answering rp: a JSON null is returned as
\* it is parsed.
generateVisual(title, bullets, theme_style, rp) ==
    IF rp = "json"
    THEN [isNull |-> FALSE, prompt |-> "LLM image: " \o theme_style, alt |-> "LLM alt"]
    ELSE IF rp = "null" THEN NullVisual
    ELSE [ isNull |-> FALSE,
           prompt |-> "Minimalist illustration of " \o title,
           alt    |-> "Visual representation of " \o title ]

\* harvestFactsForSlide returning the document summary as the facts.
harvestSummary(summary, title) == summary

harvestFactsForSlide(summary, title) == ""

tableMatchesTitle(summary, title) == FALSE

tableForTitle(summary, title) == "null"

attachChartSpec(d, table) == d

\* The index of the last c in str at or before i; 0 when there is none.
RECURSIVE LastIndexOf(_, _, _)
LastIndexOf(str, c, i) ==
    IF i = 0 THEN 0
    ELSE IF SubSeq(str, i, i) = c THEN i
    ELSE LastIndexOf(str, c, i - 1)

\* name.replace(/\.[^.]+$/, ''): the last dot and what follows it are
\* removed when something follows it.
RemoveExtension(name) ==
    LET dot == LastIndexOf(name, ".", Len(name))
    IN  IF dot > 0 /\ dot < Len(name) THEN SubSeq(name, 1, dot - 1) ELSE name

\* url.split('/').pop() || 'document', without its extension.
FileName(url) ==
    LET segments == Split(url, "/", 1, "")
    IN  RemoveExtension(OrElse(segments[Len(segments)], "document"))

\* The text the summary goes on with after the file names.
SummaryNote == ". Note: Document parsing is currently in development."

\* parseDocuments(docUrls)
parseDocuments(docUrls) ==
    IF Len(docUrls) = 0 THEN ""
    ELSE "Documents uploaded: "
         \o Join([i \in 1..Len(docUrls) |-> FileName(docUrls[i])], ", ")
         \o SummaryNote

(***************************************************************************)
(* The route: POST /api/generate-deck.                                     *)
(***************************************************************************)
image_style(theme) ==
    CASE theme = "deep_space"   -> "dark, subtle starfield, soft glow, high contrast"
      [] theme = "ultra_violet" -> "vibrant violet gradients, glassmorphism, soft blur"
      [] theme = "minimal"      -> "clean, minimalist, high contrast, geometric"
      [] theme = "corporate"    -> "professional, clean, corporate blue accents"

NoDeck == [title |-> "", theme |-> "", slides |-> <<>>]

NoResponse == [status |-> 0, error |-> "", details |-> {}, deck |-> NoDeck]

\* NextResponse.json({deck, exports}): status 200.
OkResponse(deck) == [status |-> 200, error |-> "", details |-> {}, deck |-> deck]

\* The ZodError branch of the handler's catch.
InvalidResponse(issues) ==
    [status |-> 400, error |-> "Invalid request data", details |-> issues, deck |-> NoDeck]

\* The rest of the handler's catch, for an Error with this message.
ErrorResponse(message) ==
    LET isNetworkError == \/ Includes(message, "fetch")
                          \/ Includes(message, "network")
                          \/ Includes(message, "ECONNREFUSED")
        isTimeoutError == Includes(message, "timeout") \/ Includes(message, "aborted")
        userFriendlyError ==
            IF isNetworkError
            THEN "Cannot connect to AI service. Please ensure Ollama is running on http://localhost:11434 or configure your LLM provider in environment variables."
            ELSE IF isTimeoutError
            THEN "Request timed out. The AI service may be slow or unavailable. Please try again."
            ELSE IF Len(message) > 0
            THEN "Generation failed: " \o Join(message, " ")
            ELSE "Deck generation failed"
    IN  [status |-> 500, error |-> userFriendlyError,
         details |-> {Join(message, " ")}, deck |-> NoDeck]

OutlineTimeoutMessage ==
    <<"Outline", "generation", "timed", "out", "after", "60", "seconds">>

\* The TypeError of reading a member of undefined.
TypeErrorMessage ==
    <<"Cannot", "read", "properties", "of", "undefined">>

SyntaxErrorMessage ==
    <<"Unexpected", "token", "in", "JSON">>

\* The rejection of callOllama when the service cannot be reached.
LLMErrorMessage ==
    <<"Cannot", "connect", "to", "Ollama", "at", "http://localhost:11434.",
      "Please", "ensure", "Ollama", "is", "running", "and", "accessible.">>

\* route.ts:146-169: the outline adjusted to the requested count, or that a
\* TypeError was thrown.
RouteAdjust(o, slide_count) ==
    LET n == Len(o.sections)
        totalSlidesInOutline == Whole(TotalSlides(o.sections))
    IN  IF \E i \in 1..n : ~o.sections[i].has_slides THEN Threw
        ELSE IF totalSlidesInOutline < slide_count
        THEN IF n = 0 THEN Threw
             ELSE Returned([o EXCEPT !.sections =
                              AddToLast(o.sections, slide_count - totalSlidesInOutline)])
        ELSE IF totalSlidesInOutline > slide_count
        THEN IF n = 0 THEN Threw
             ELSE Returned([o EXCEPT !.sections =
                              RemoveFromLast(o.sections, totalSlidesInOutline - slide_count)])
        ELSE Returned(o)

\* The pushed slide with the layout read from the draft, which carries
\* none: every generated slide gets the default layout.
DeckSlideDraftLayout(slot, d, visual) ==
    [ layout     |-> "title_bullets",
      title      |-> d.title,
      bullets    |-> d.bullets,
      notes      |-> d.notes,
      chart_spec |-> d.chart_spec,
      image      |-> [prompt |-> visual.prompt, alt |-> visual.alt, source |-> "generated"],
      citations  |-> d.citations ]

\* route.ts:210-218
DeckSlide(slot, d, visual) ==
    [ layout     |-> slot.layout,
      title      |-> d.title,
      bullets    |-> d.bullets,
      notes      |-> d.notes,
      chart_spec |-> d.chart_spec,
      image      |-> [prompt |-> visual.prompt, alt |-> visual.alt, source |-> "generated"],
      citations  |-> d.citations ]

\* route.ts:222-230
FallbackSlide(slot) ==
    [ layout     |-> slot.layout,
      title      |-> slot.title,
      bullets    |-> <<"Content generation in progress...">>,
      notes      |-> "This slide content is being generated.",
      chart_spec |-> "null",
      image      |-> [prompt |-> "Visual for " \o slot.title, alt |-> slot.title,
                      source |-> "generated"],
      citations  |-> <<>> ]

NoBody == [BaseBody EXCEPT !.mode = Absent]

\* The answers the LLM gives: any of them (llm = "any"), those of a service
\* that cannot be reached (llm = "down"), or those of a service that answers
\* a short well-formed outline and well-formed slides (llm = "up").
Answers ==
    IF llm = "any"
    THEN [outline |-> OutlineReplies, slide |-> SlideReplies, visual |-> VisualReplies]
    ELSE IF llm = "down"
    THEN [outline |-> {rp \in OutlineReplies : rp.kind = "error"},
          slide   |-> {"error"},
          visual  |-> {"error"}]
    ELSE [outline |-> {rp \in OutlineReplies :
                          /\ rp.kind = "outline"
                          /\ Len(rp.sections) = Len(SectionNames)
                          /\ \A i \in 1..Len(rp.sections) : Len(rp.sections[i].slides) = 1},
          slide   |-> {"json"},
          visual  |-> {"json"}]

NoMeta == Normalize(BaseBody)

NoOutline == [title |-> "", sections |-> <<>>]

\* The argument of generateOutline (route.ts:132-138).
ParamsOf(r) ==
    [ slide_count                     |-> meta[r].slide_count,
      audience                        |-> meta[r].audience,
      tone                            |-> meta[r].tone,
      topic_or_prompt_or_instructions |-> topic[r],
      doc_summary_or_empty            |-> docSummary[r] ]

\* An entry of a request's history: the body it arrived with, or what
\* answered an awaited call ("timeout": its timer).
Entry(step, body, rp, outlineReply) ==
    [step |-> step, body |-> body, reply |-> rp, outline |-> outlineReply]

\* The history is kept when requests run concurrently, where it is read.
Record(r, entry) ==
    IF Cardinality(clients) > 1 THEN [log EXCEPT ![r] = Append(@, entry)] ELSE log

\* 1 while the handler of r awaits an LLM call it started, else 0.
Awaited(r) == IF pc[r] \in {"outline", "slide", "visual"} THEN 1 ELSE 0

\* slides.push(slide) on an array declared at module level, which every
\* handler shares.
PushSlideShared(r, slide) == [q \in Reqs |-> Append(slides[r], slide)]

\* slides.push(slide) in the handler of r.
PushSlide(r, slide) == [slides EXCEPT ![r] = Append(@, slide)]

\* The handler of r returns this response.
Respond(r, resp) ==
    /\ pc' = [pc EXCEPT ![r] = "done"]
    /\ response' = [response EXCEPT ![r] = resp]

\* route.ts:108-142, to the first await of an LLM call.
Start(r) ==
    /\ pc[r] = "start"
    /\ request' = [request EXCEPT ![r] = NoBody]
    /\ log' = Record(r, Entry("body", request[r], "", NoReply))
    /\ UNCHANGED <<clients, slideFacts, llm, outline, currentSlide, draft, slides, failed, callVars>>
    /\ LET b == request[r]
       IN  IF ~b.wellformed
           THEN /\ Respond(r, ErrorResponse(SyntaxErrorMessage))
                /\ UNCHANGED <<meta, topic, docSummary, inflight, llmCalls, parsedDocs>>
           ELSE IF SchemaIssues(b) # {}
           THEN /\ Respond(r, InvalidResponse(SchemaIssues(b)))
                /\ UNCHANGED <<meta, topic, docSummary, inflight, llmCalls, parsedDocs>>
           ELSE /\ meta' = [meta EXCEPT ![r] = Normalize(b)]
                /\ topic' = [topic EXCEPT ![r] = TopicOf(b)]
                /\ docSummary' = [docSummary EXCEPT ![r] =
                       IF b.mode = "doc_to_deck" /\ b.has_doc_urls
                       THEN parseDocuments(b.doc_urls) ELSE ""]
                /\ parsedDocs' = [parsedDocs EXCEPT ![r] =
                       b.mode = "doc_to_deck" /\ b.has_doc_urls]
                /\ pc' = [pc EXCEPT ![r] = "outline"]
                /\ inflight' = [inflight EXCEPT ![r] = @ + 1]
                /\ llmCalls' = [llmCalls EXCEPT ![r] = @ + 1]
                /\ UNCHANGED response

\* The deck is complete: route.ts:235-254.
Finish(r, o, allSlides) ==
    Respond(r, OkResponse([title  |-> o.title,
                           theme  |-> meta[r].theme,
                           slides |-> allSlides[r]]))

\* The slot loop goes on after the slot currentSlide[r]: the next slot's
\* generateSlide is called, or the deck is returned.  answered is 1 when the
\* awaited LLM call has answered and 0 when its timer has fired.
NextSlot(r, o, allSlides, answered) ==
    /\ slides' = allSlides
    /\ draft' = [draft EXCEPT ![r] = NoDraft]
    /\ IF currentSlide[r] < Len(Slots(o.sections))
       THEN /\ currentSlide' = [currentSlide EXCEPT ![r] = @ + 1]
            /\ pc' = [pc EXCEPT ![r] = "slide"]
            /\ inflight' = [inflight EXCEPT ![r] = @ - answered + 1]
            /\ llmCalls' = [llmCalls EXCEPT ![r] = @ + 1]
            /\ UNCHANGED response
       ELSE /\ Finish(r, o, allSlides)
            /\ inflight' = [inflight EXCEPT ![r] = @ - answered]
            /\ UNCHANGED <<currentSlide, llmCalls>>

\* route.ts:131-180: generateOutline settles before the 60 s timer.
OutlineResolves(r) ==
    /\ pc[r] = "outline"
    /\ \E rp \in Answers.outline :
         LET res      == generateOutline(ParamsOf(r), rp)
             adjusted == RouteAdjust(res.value, meta[r].slide_count)
         IN  /\ log' = Record(r, Entry("outline", NoBody, rp.kind, rp))
             /\ IF res.status = "rejected"
                THEN /\ Respond(r, ErrorResponse(LLMErrorMessage))
                     /\ inflight' = [inflight EXCEPT ![r] = @ - 1]
                     /\ UNCHANGED <<outline, currentSlide, draft, slides, llmCalls>>
                ELSE IF adjusted.threw
                THEN /\ Respond(r, ErrorResponse(TypeErrorMessage))
                     /\ inflight' = [inflight EXCEPT ![r] = @ - 1]
                     /\ UNCHANGED <<outline, currentSlide, draft, slides, llmCalls>>
                ELSE /\ outline' = [outline EXCEPT ![r] = adjusted.value]
                     /\ NextSlot(r, adjusted.value, slides, 1)
    /\ UNCHANGED <<clients, slideFacts, llm, request, meta, topic, docSummary, parsedDocs,
                   failed, callVars>>

\* route.ts:139-141: the 60 s timer fires first.
OutlineTimeout(r) ==
    /\ pc[r] = "outline"
    /\ Respond(r, ErrorResponse(OutlineTimeoutMessage))
    /\ log' = Record(r, Entry("outline", NoBody, "timeout", NoReply))
    /\ UNCHANGED <<clients, slideFacts, llm, request, meta, topic, docSummary, outline,
                   currentSlide, draft, slides, inflight, llmCalls, parsedDocs,
                   failed, callVars>>

Slot(r) == Slots(outline[r].sections)[currentSlide[r]]

\* route.ts:183-208: generateSlide settles before the 30 s timer, and
\* generateVisual is called.
SlideResolves(r) ==
    /\ pc[r] = "slide"
    /\ \E rp \in Answers.slide :
         LET perSlideFacts == IF docSummary[r] # ""
                              THEN harvestFactsForSlide(docSummary[r], Slot(r).title)
                              ELSE ""
             res == generateSlide(Slot(r), perSlideFacts, rp)
             d == res.value
             withChart == IF d.chart_spec = "null"
                             /\ tableMatchesTitle(docSummary[r], Slot(r).title)
                          THEN attachChartSpec(d, tableForTitle(docSummary[r], Slot(r).title))
                          ELSE d
         IN  /\ log' = Record(r, Entry("slide", NoBody, rp, NoReply))
             /\ slideFacts' = [slideFacts EXCEPT ![r] = @ \cup {perSlideFacts}]
             /\ IF res.status = "rejected"
                THEN /\ NextSlot(r, outline[r], PushSlide(r, FallbackSlide(Slot(r))), 1)
                     /\ failed' = [failed EXCEPT ![r] = @ \cup {currentSlide[r]}]
                ELSE /\ draft' = [draft EXCEPT ![r] = withChart]
                     /\ pc' = [pc EXCEPT ![r] = "visual"]
                     /\ llmCalls' = [llmCalls EXCEPT ![r] = @ + 1]
                     /\ UNCHANGED <<currentSlide, slides, response, inflight, failed>>
    /\ UNCHANGED <<clients, llm, request, meta, topic, docSummary, outline,
                   parsedDocs, callVars>>

\* generateSlide awaited with no timer beside it.
SlideTimeoutUnarmed(r) ==
    /\ pc[r] = "slide"
    /\ FALSE
    /\ UNCHANGED vars

\* route.ts:189-191, 219-231: the 30 s timer fires first.
SlideTimeout(r) ==
    /\ pc[r] = "slide"
    /\ NextSlot(r, outline[r], PushSlide(r, FallbackSlide(Slot(r))), 0)
    /\ failed' = [failed EXCEPT ![r] = @ \cup {currentSlide[r]}]
    /\ log' = Record(r, Entry("slide", NoBody, "timeout", NoReply))
    /\ UNCHANGED <<clients, slideFacts, llm, request, meta, topic, docSummary, outline,
                   parsedDocs, callVars>>

\* route.ts:199-231: generateVisual settles before the 10 s timer.
VisualResolves(r) ==
    /\ pc[r] = "visual"
    /\ \E rp \in Answers.visual :
         LET visual == generateVisual(draft[r].title, draft[r].bullets,
                                      image_style(meta[r].theme), rp)
         IN  /\ IF visual.isNull
                THEN /\ NextSlot(r, outline[r], PushSlide(r, FallbackSlide(Slot(r))), 1)
                     /\ failed' = [failed EXCEPT ![r] = @ \cup {currentSlide[r]}]
                ELSE /\ NextSlot(r, outline[r], PushSlide(r, DeckSlide(Slot(r), draft[r], visual)), 1)
                     /\ UNCHANGED failed
             /\ log' = Record(r, Entry("visual", NoBody, rp, NoReply))
    /\ UNCHANGED <<clients, slideFacts, llm, request, meta, topic, docSummary, outline,
                   parsedDocs, callVars>>

\* The visual timer's rejection reaching the handler's outer catch.
VisualTimeoutAborts(r) ==
    /\ pc[r] = "visual"
    /\ Respond(r, ErrorResponse(<<"Visual", "generation", "timed", "out">>))
    /\ failed' = [failed EXCEPT ![r] = @ \cup {currentSlide[r]}]
    /\ log' = Record(r, Entry("visual", NoBody, "timeout", NoReply))
    /\ UNCHANGED <<clients, slideFacts, llm, request, meta, topic, docSummary, outline,
                   currentSlide, draft, slides, inflight, llmCalls, parsedDocs,
                   callVars>>

\* route.ts:205-207, 219-231: the 10 s timer fires first.
VisualTimeout(r) ==
    /\ pc[r] = "visual"
    /\ NextSlot(r, outline[r], PushSlide(r, FallbackSlide(Slot(r))), 0)
    /\ failed' = [failed EXCEPT ![r] = @ \cup {currentSlide[r]}]
    /\ log' = Record(r, Entry("visual", NoBody, "timeout", NoReply))
    /\ UNCHANGED <<clients, slideFacts, llm, request, meta, topic, docSummary, outline,
                   parsedDocs, callVars>>

\* The late result handled by a .then() that writes the slide of its slot:
\* the bullets of a fallback slide already pushed are replaced.
OrphanSettlesOverwrites(r) ==
    /\ inflight[r] > Awaited(r)
    /\ inflight' = [inflight EXCEPT ![r] = @ - 1]
    /\ slides' = [slides EXCEPT ![r] =
                     [i \in 1..Len(@) |->
                         IF i \in failed[r]
                         THEN [@[i] EXCEPT !.bullets = LLMDraft(Slots(outline[r].sections)[i]).bullets]
                         ELSE @[i]]]
    /\ UNCHANGED <<clients, slideFacts, llm, request, pc, meta, topic, docSummary, outline,
                   currentSlide, draft, response, llmCalls, parsedDocs,
                   failed, log, callVars>>

\* An LLM call whose caller no longer awaits it is answered (or aborted by
\* the client's own 2 minute timer): its promise settles and nobody reads it.
OrphanSettles(r) ==
    /\ inflight[r] > Awaited(r)
    /\ inflight' = [inflight EXCEPT ![r] = @ - 1]
    /\ UNCHANGED <<clients, slideFacts, llm, request, pc, meta, topic, docSummary, outline,
                   currentSlide, draft, slides, response, llmCalls, parsedDocs,
                   failed, log, callVars>>

(***************************************************************************)
(* A direct call of generateOutline.                                       *)
(***************************************************************************)
Pending == [status |-> "pending", value |-> NoOutline]

\* The arguments of a direct call: every count from 1 to MaxCallCount, in
\* halves.
CallParams ==
    [ slide_count                     : Whole(1)..Whole(MaxCallCount),
      audience                        : {"general"},
      tone                            : {"professional"},
      topic_or_prompt_or_instructions : {"AI", ""},
      doc_summary_or_empty            : {""} ]

NoParams ==
    [ slide_count                     |-> Whole(MinSlideCount),
      audience                        |-> "general",
      tone                            |-> "professional",
      topic_or_prompt_or_instructions |-> "",
      doc_summary_or_empty            |-> "" ]

\* What the LLM may answer a direct call.
CallReplies == RepliesOf(ShapesUpTo(MaxCallOutlineSlides))

CallGenerateOutline ==
    /\ result.status = "pending"
    /\ result' = generateOutline(params, reply)
    /\ UNCHANGED <<params, reply, routeVars>>

\* The arguments of a direct call of generateSlide: slots whose title is a
\* string (with and without words of more than three letters), empty,
\* missing, or a number.
SlideCallParams ==
    [ slide_context :
          [ title   : {"AI in Healthcare: Trends", "**AI**: What You Need to Know",
                       "AI", "", Absent, NumberTitle},
            layout  : {"title_bullets", "chart"},
            section : {"Opening"} ],
      per_slide_extracted_text_or_empty : {"", "Documents uploaded: report."} ]

PendingSlide == [status |-> "pending", value |-> NoDraft]

CallGenerateSlide ==
    /\ result.status = "pending"
    /\ result' = generateSlide(params.slide_context,
                               params.per_slide_extracted_text_or_empty, reply)
    /\ UNCHANGED <<params, reply, routeVars>>

(***************************************************************************)
(* Specifications.                                                         *)
(***************************************************************************)

\* The requests cs arrive, each with one of the bodies bs; the LLM answers
\* with one of env.
InitRoute(cs, bs, env) ==
    /\ clients = cs
    /\ llm = env
    /\ request \in {q \in [Reqs -> bs \cup {NoBody}] :
                       \A r \in Reqs : (q[r] = NoBody) <=> (r \notin cs)}
    /\ pc = [r \in Reqs |-> IF r \in cs THEN "start" ELSE "absent"]
    /\ meta = [r \in Reqs |-> NoMeta]
    /\ topic = [r \in Reqs |-> ""]
    /\ docSummary = [r \in Reqs |-> ""]
    /\ outline = [r \in Reqs |-> NoOutline]
    /\ currentSlide = [r \in Reqs |-> 0]
    /\ draft = [r \in Reqs |-> NoDraft]
    /\ slides = [r \in Reqs |-> <<>>]
    /\ response = [r \in Reqs |-> NoResponse]
    /\ inflight = [r \in Reqs |-> 0]
    /\ llmCalls = [r \in Reqs |-> 0]
    /\ parsedDocs = [r \in Reqs |-> FALSE]
    /\ failed = [r \in Reqs |-> {}]
    /\ slideFacts = [r \in Reqs |-> {}]
    /\ log = [r \in Reqs |-> <<>>]

Init ==
    /\ InitRoute({"r1"}, Bodies, "any")
    /\ params = NoParams
    /\ reply = NoReply
    /\ result = Resolved(NoOutline)

Step(r) ==
    \/ Start(r)
    \/ OutlineResolves(r)
    \/ OutlineTimeout(r)
    \/ SlideResolves(r)
    \/ SlideTimeout(r)
    \/ VisualResolves(r)
    \/ VisualTimeout(r)
    \/ OrphanSettles(r)

Next == \E r \in clients : Step(r)

\* One request, every body, every LLM answer.
Spec == Init /\ [][Next]_vars

InitCall ==
    /\ InitRoute({}, {}, "any")
    /\ params \in CallParams
    /\ reply \in CallReplies
    /\ result = Pending

\* generateOutline called with every argument and every LLM answer.
SpecOutline == InitCall /\ [][CallGenerateOutline]_vars

InitSlideCall ==
    /\ InitRoute({}, {}, "any")
    /\ params \in SlideCallParams
    /\ reply \in SlideCallReplies
    /\ result = PendingSlide

\* generateSlide called with every argument and every LLM answer.
SpecSlide == InitSlideCall /\ [][CallGenerateSlide]_vars

\* The LLM service cannot be reached: every call it answers, it answers
\* with an error.
InitDown ==
    /\ InitRoute({"r1"}, Bodies, "down")
    /\ params = NoParams
    /\ reply = NoReply
    /\ result = Resolved(NoOutline)

SpecDown == InitDown /\ [][Next]_vars

\* Two requests arrive together, with the same body or with bodies that
\* differ in theme and topic, while the LLM service is up.
ConcurrentBodies ==
    {BaseBody,
     [BaseBody EXCEPT !.theme = "minimal", !.topic_or_prompt = Absent,
                      !.instructions = "from my notes"]}

InitConcurrent ==
    /\ InitRoute(Reqs, ConcurrentBodies, "up")
    /\ params = NoParams
    /\ reply = NoReply
    /\ result = Resolved(NoOutline)

\* The handlers of the two requests interleave at their awaits.
SpecConcurrent == InitConcurrent /\ [][Next]_vars

\* Document URLs: two with the same file name, one that ends with a slash,
\* one without path or extension, one with two extensions, one that ends
\* with a dot, one with a hyphen and digits.
DocUrls ==
    {DocUrl, "https://cdn.example/a/report.docx", "https://files.example/docs/",
     "notes", "https://x.example/archive.tar.gz", "https://x.example/data.",
     "https://x.example/q3-2024.xlsx"}

\* assets.doc_urls of a request: up to two URLs.
UrlLists == {<<>>} \cup {<<u>> : u \in DocUrls} \cup {<<u, v>> : u, v \in DocUrls}

\* Requests in either mode, without assets.doc_urls and with each list.
DocBodies ==
    {[BaseBody EXCEPT !.mode = m] : m \in Modes}
    \cup {[BaseBody EXCEPT !.mode = m, !.has_doc_urls = TRUE, !.doc_urls = u] :
              m \in Modes, u \in UrlLists}

InitDocs ==
    /\ InitRoute({"r1"}, DocBodies, "up")
    /\ params = NoParams
    /\ reply = NoReply
    /\ result = Resolved(NoOutline)

\* One request that may carry document URLs, the LLM service being up.
SpecDocs == InitDocs /\ [][Next]_vars

(***************************************************************************)
(* cleanJSONResponse (deck-generator.ts:20-56) on the characters of the    *)
(* LLM's response.                                                         *)
(***************************************************************************)
\* The white space of the responses: space, line feed, tab, carriage return.
WhiteSpace == {" ", "\n", "\t", "\r"}

\* The first index from i on that holds no white space (Len(str) + 1: none).
RECURSIVE FirstNonSpace(_, _)
FirstNonSpace(str, i) ==
    IF i > Len(str) THEN i
    ELSE IF SubSeq(str, i, i) \notin WhiteSpace THEN i
    ELSE FirstNonSpace(str, i + 1)

\* The last index up to i that holds no white space (0: none).
RECURSIVE LastNonSpace(_, _)
LastNonSpace(str, i) ==
    IF i = 0 THEN 0
    ELSE IF SubSeq(str, i, i) \notin WhiteSpace THEN i
    ELSE LastNonSpace(str, i - 1)

\* String.prototype.trim()
trim(str) == SubSeq(str, FirstNonSpace(str, 1), LastNonSpace(str, Len(str)))

\* String.prototype.startsWith(p)
startsWith(str, p) == Len(str) >= Len(p) /\ SubSeq(str, 1, Len(p)) = p

endsWith(str, p) ==
    Len(str) >= Len(p) /\ SubSeq(str, Len(str) - Len(p) + 1, Len(str)) = p

\* str.replace(/^p/, '') for a literal p.
RemoveAtStart(str, p) ==
    IF startsWith(str, p) THEN SubSeq(str, Len(p) + 1, Len(str)) ELSE str

\* str.replace(/p$/, '') for a literal p.
RemoveAtEnd(str, p) ==
    IF endsWith(str, p) THEN SubSeq(str, 1, Len(str) - Len(p)) ELSE str

\* The grave accent of a markdown code fence: a TLA+ string cannot hold that
\* character, and the responses of the model hold this one in its place.
GraveAccent == "~"

Fence == GraveAccent \o GraveAccent \o GraveAccent

\* deck-generator.ts:24-29: the markdown code fence.
RemoveFence(cleaned) ==
    IF startsWith(cleaned, Fence \o "json")
    THEN RemoveAtEnd(RemoveAtStart(cleaned, Fence \o "json\n"), "\n" \o Fence)
    ELSE IF startsWith(cleaned, Fence)
    THEN RemoveAtEnd(RemoveAtStart(cleaned, Fence \o "\n"), "\n" \o Fence)
    ELSE cleaned

UpperCase == "ABCDEFGHIJKLMNOPQRSTUVWXYZ"

LowerCase == "abcdefghijklmnopqrstuvwxyz"

\* The lower case of a character (the regular expression's i flag).
LowerChar(c) ==
    IF c \in {SubSeq(UpperCase, k, k) : k \in 1..Len(UpperCase)}
    THEN LET k == CHOOSE k \in 1..Len(UpperCase) : SubSeq(UpperCase, k, k) = c
         IN  SubSeq(LowerCase, k, k)
    ELSE c

\* The first i characters of str in lower case.
RECURSIVE toLowerCase(_, _)
toLowerCase(str, i) ==
    IF i = 0 THEN "" ELSE toLowerCase(str, i - 1) \o LowerChar(SubSeq(str, i, i))

\* The alternatives of /^(Okay|Sure|Here|Certainly|Here's|Here is)[,:]?\s*/i
\* in the order the expression tries them.
PrefixWords == <<"okay", "sure", "here", "certainly", "here's", "here is">>

\* Whether str begins with the k-th alternative, whatever the case.
BeginsWithWord(str, k) ==
    /\ Len(str) >= Len(PrefixWords[k])
    /\ toLowerCase(str, Len(PrefixWords[k])) = PrefixWords[k]

\* deck-generator.ts:32: the expression matches with the first alternative
\* that str begins with (what follows the alternative matches any text), then
\* one ',' or ':' if there is one, then all the white space that follows.
RemovePrefix(cleaned) ==
    IF \E k \in 1..Len(PrefixWords) : BeginsWithWord(cleaned, k)
    THEN LET k == CHOOSE k \in 1..Len(PrefixWords) :
                      /\ BeginsWithWord(cleaned, k)
                      /\ \A j \in 1..(k - 1) : ~BeginsWithWord(cleaned, j)
             w == Len(PrefixWords[k])
             p == IF w < Len(cleaned) /\ SubSeq(cleaned, w + 1, w + 1) \in {",", ":"}
                  THEN w + 1 ELSE w
         IN  SubSeq(cleaned, FirstNonSpace(cleaned, p + 1), Len(cleaned))
    ELSE cleaned

\* str.replace(/pat/g, rep) for a literal pat of two characters, from the
\* i-th character on.
RECURSIVE ReplaceAll(_, _, _, _)
ReplaceAll(str, pat, rep, i) ==
    IF i > Len(str) THEN ""
    ELSE IF i < Len(str) /\ SubSeq(str, i, i + 1) = pat
    THEN rep \o ReplaceAll(str, pat, rep, i + 2)
    ELSE SubSeq(str, i, i) \o ReplaceAll(str, pat, rep, i + 1)

\* deck-generator.ts:41-45: the four replacements of the catch block.
RepairEscapes(cleaned) ==
    LET a == ReplaceAll(cleaned, "\\n", " ", 1)
        b == ReplaceAll(a, "\\\\", "\\", 1)
        c == ReplaceAll(b, "\\\"", "\"", 1)
    IN  ReplaceAll(c, "\\'", "'", 1)

\* str[i - 1] of JavaScript, "" outside the string.
CharAt(str, i) == IF i >= 1 /\ i <= Len(str) THEN SubSeq(str, i, i) ELSE ""

\* A JSON value: kind "string", "number" or "literal" with its text, kind
\* "array" with its elements, kind "object" with its members, a member
\* being of kind "member" with the key as text and the value as one item.
JSONValue(kind, text, items) == [kind |-> kind, text |-> text, items |-> items]

\* What a parsing step gives: whether it succeeded, the value it read and
\* the index after it.
Parsed(value, pos) == [ok |-> TRUE, value |-> value, pos |-> pos]

SyntaxError == [ok |-> FALSE, value |-> JSONValue("literal", "undefined", <<>>), pos |-> 0]

Digits == {"0", "1", "2", "3", "4", "5", "6", "7", "8", "9"}

HexDigits == Digits \cup {"a", "b", "c", "d", "e", "f", "A", "B", "C", "D", "E", "F"}

\* The first index from i on that holds no digit.
RECURSIVE DigitsEnd(_, _)
DigitsEnd(str, i) ==
    IF CharAt(str, i) \in Digits THEN DigitsEnd(str, i + 1) ELSE i

\* A JSON number at i: -? (0 | [1-9][0-9]*) (.[0-9]+)? ([eE][+-]?[0-9]+)?
\* The value is the text of the number.
parseNumber(str, i) ==
    LET int     == IF CharAt(str, i) = "-" THEN i + 1 ELSE i
        intEnd  == IF CharAt(str, int) = "0" THEN int + 1 ELSE DigitsEnd(str, int)
        fracEnd == IF CharAt(str, intEnd) = "."
                   THEN DigitsEnd(str, intEnd + 1) ELSE intEnd
        exp     == IF CharAt(str, fracEnd + 1) \in {"+", "-"}
                   THEN fracEnd + 2 ELSE fracEnd + 1
        expEnd  == IF CharAt(str, fracEnd) \in {"e", "E"}
                   THEN DigitsEnd(str, exp) ELSE fracEnd
    IN  IF intEnd = int THEN SyntaxError
        ELSE IF CharAt(str, intEnd) = "." /\ fracEnd = intEnd + 1 THEN SyntaxError
        ELSE IF CharAt(str, fracEnd) \in {"e", "E"} /\ expEnd = exp THEN SyntaxError
        ELSE Parsed(JSONValue("number", SubSeq(str, i, expEnd - 1), <<>>), expEnd)

\* The character an escape \e of a JSON string stands for; \b and \f stand
\* for themselves.
Unescaped(e) ==
    CASE e = "n" -> "\n"
      [] e = "t" -> "\t"
      [] e = "r" -> "\r"
      [] e = "b" -> "\\b"
      [] e = "f" -> "\\f"
      [] OTHER   -> e

\* A JSON string whose opening quote is before i, acc being the characters
\* read so far.  A \uXXXX escape stands for itself.
RECURSIVE parseString(_, _, _)
parseString(str, i, acc) ==
    LET c == CharAt(str, i)
        e == CharAt(str, i + 1)
    IN  IF c = "" \/ c \in {"\n", "\t", "\r"} THEN SyntaxError
        ELSE IF c = "\"" THEN Parsed(JSONValue("string", acc, <<>>), i + 1)
        ELSE IF c # "\\" THEN parseString(str, i + 1, acc \o c)
        ELSE IF e \in {"\"", "\\", "/", "b", "f", "n", "r", "t"}
        THEN parseString(str, i + 2, acc \o Unescaped(e))
        ELSE IF e = "u" /\ \A k \in 2..5 : CharAt(str, i + k) \in HexDigits
        THEN parseString(str, i + 6, acc \o SubSeq(str, i, i + 5))
        ELSE SyntaxError

\* The members read so far with the member of key key set to value: a key
\* that comes again replaces the member it had.
SetMember(members, key, value) ==
    Append(SelectSeq(members, LAMBDA m : m.text # key),
           JSONValue("member", key, <<value>>))

RECURSIVE parseValue(_, _)
RECURSIVE parseElements(_, _, _, _)
RECURSIVE parseMembers(_, _, _, _)
\* The elements of an array from i on, acc being the elements read so far;
\* mayClose: the array may end here (no element is owed after a comma).
parseElements(str, i, acc, mayClose) ==
    LET j == FirstNonSpace(str, i)
        v == parseValue(str, j)
        k == FirstNonSpace(str, v.pos)
    IN  IF CharAt(str, j) = "]" /\ mayClose
        THEN Parsed(JSONValue("array", "", acc), j + 1)
        ELSE IF ~v.ok THEN SyntaxError
        ELSE IF CharAt(str, k) = ","
        THEN parseElements(str, k + 1, Append(acc, v.value), FALSE)
        ELSE IF CharAt(str, k) = "]"
        THEN Parsed(JSONValue("array", "", Append(acc, v.value)), k + 1)
        ELSE SyntaxError

\* The members of an object from i on, acc being the members read so far.
parseMembers(str, i, acc, mayClose) ==
    LET j   == FirstNonSpace(str, i)
        key == parseString(str, j + 1, "")
        c   == FirstNonSpace(str, key.pos)
        v   == parseValue(str, FirstNonSpace(str, c + 1))
        k   == FirstNonSpace(str, v.pos)
    IN  IF CharAt(str, j) = "}" /\ mayClose
        THEN Parsed(JSONValue("object", "", acc), j + 1)
        ELSE IF CharAt(str, j) # "\"" THEN SyntaxError
        ELSE IF ~key.ok THEN SyntaxError
        ELSE IF CharAt(str, c) # ":" THEN SyntaxError
        ELSE IF ~v.ok THEN SyntaxError
        ELSE IF CharAt(str, k) = ","
        THEN parseMembers(str, k + 1, SetMember(acc, key.value.text, v.value), FALSE)
        ELSE IF CharAt(str, k) = "}"
        THEN Parsed(JSONValue("object", "", SetMember(acc, key.value.text, v.value)), k + 1)
        ELSE SyntaxError

\* The JSON value that begins at i.
parseValue(str, i) ==
    LET c == CharAt(str, i)
    IN  IF c = "{" THEN parseMembers(str, i + 1, <<>>, TRUE)
        ELSE IF c = "[" THEN parseElements(str, i + 1, <<>>, TRUE)
        ELSE IF c = "\"" THEN parseString(str, i + 1, "")
        ELSE IF c \in Digits \cup {"-"} THEN parseNumber(str, i)
        ELSE IF \E w \in {"true", "false", "null"} : SubSeq(str, i, Min(Len(str), i + Len(w) - 1)) = w
        THEN LET w == CHOOSE w \in {"true", "false", "null"} :
                          SubSeq(str, i, Min(Len(str), i + Len(w) - 1)) = w
             IN  Parsed(JSONValue("literal", w, <<>>), i + Len(w))
        ELSE SyntaxError

\* JSON.parse(text): one value with white space around it; ok FALSE: it
\* throws a SyntaxError.
JSON_parse(text) ==
    LET v == parseValue(text, FirstNonSpace(text, 1))
    IN  IF v.ok /\ FirstNonSpace(text, v.pos) = Len(text) + 1 THEN v ELSE SyntaxError

\* The replacements of the catch block made on every answer, before any
\* parse.
cleanJSONResponseAlwaysRepairs(answer) ==
    LET cleaned == RemovePrefix(RemoveFence(trim(answer)))
    IN  [value |-> trim(RepairEscapes(cleaned)), repaired |-> TRUE]

\* cleanJSONResponse(response) for the response answer: the string it
\* returns, and whether the catch block ran.
cleanJSONResponse(answer) ==
    LET cleaned  == RemovePrefix(RemoveFence(trim(answer)))
        repaired == RepairEscapes(cleaned)
    IN  IF JSON_parse(cleaned).ok
        THEN [value |-> cleaned, repaired |-> FALSE]
        ELSE [value |-> trim(repaired), repaired |-> TRUE]

(***************************************************************************)
(* A direct call of cleanJSONResponse.                                     *)
(***************************************************************************)
\* The pieces the LLM's answers are made of: the brackets and the quote of
\* JSON, a digit, a space, and a backslash before n, \, " and '.
BodyTokens ==
    <<"[", "]", "\"", "1", " ", "\\n", "\\\\", "\\\"", "\\'">>

RECURSIVE Concat(_, _)
\* The first i pieces of pieces, one after the other.
Concat(pieces, i) ==
    IF i = 0 THEN "" ELSE Concat(pieces, i - 1) \o BodyTokens[pieces[i]]

\* Every text of at most MaxBodyTokens pieces.
TokenBodies ==
    {Concat(pieces, Len(pieces)) :
        pieces \in UNION {[1..k -> 1..Len(BodyTokens)] : k \in 0..MaxBodyTokens}}

\* Answers of the shape the prompts ask for, some with escapes in their
\* strings, some that are not JSON.
DocumentBodies ==
    { "{}",
      "{\"title\":\"Deck\",\"sections\":[{\"name\":\"Intro\",\"slides\":[]}]}",
      "{\"title\": \"Line\\nbreak\", \"bullets\": [\"a\", \"b\"]}",
      "{\"title\":\"Say \\\"hi\\\"\",\"n\":-1.5e3}",
      "{\"path\":\"C:\\\\new\",\"ok\":true}",
      "{\"title\":\"It\\'s here\"}",
      "{\\\"title\\\":\\\"Deck\\\"}",
      "{\"title\":\"Deck\",}",
      "[{\"a\":null},\n {\"a\":\"x\"}]" }

\* Every answer of the model.  The documents come in every wrapping: white
\* space, a few words, a code fence with or without the language, a
\* conversational prefix, the closing fence, a line feed.  The texts of
\* pieces come bare, fenced, after a word, and both.
Responses ==
    {lead \o greeting \o opening \o prefix \o body \o closing \o trail :
        lead     \in {"", " \n"},
        greeting \in {"", "Sure, ", "Here is "},
        opening  \in {"", Fence \o "json\n", Fence \o "\n", Fence \o "json ", Fence \o "JSON\n"},
        prefix   \in {"", "Sure, ", "Here is ", "Here's: ", "OKAY:\n", "Certainly! "},
        body     \in DocumentBodies,
        closing  \in {"", "\n" \o Fence, Fence},
        trail    \in {"", "\n"}}
    \cup TokenBodies
    \cup {Fence \o "json\n" \o b \o "\n" \o Fence : b \in TokenBodies}
    \cup {"Sure, " \o b : b \in TokenBodies}
    \cup {Fence \o "\n" \o "Here is " \o b \o "\n" \o Fence \o "\n" : b \in TokenBodies}

PendingClean == [status |-> "pending", value |-> "", repaired |-> FALSE]

\* const cleaned = cleanJSONResponse(response)
CallCleanJSONResponse ==
    /\ result = PendingClean
    /\ LET returned == cleanJSONResponse(reply)
       IN  result' = [status   |-> "returned",
                      value    |-> returned.value,
                      repaired |-> returned.repaired]
    /\ UNCHANGED <<routeVars, params, reply>>

InitCleanCall ==
    /\ InitRoute({}, {}, "any")
    /\ params = NoParams
    /\ reply \in Responses
    /\ result = PendingClean

\* cleanJSONResponse called with every answer.
SpecClean == InitCleanCall /\ [][CallCleanJSONResponse]_vars

\* The handler of every request is run, and a timer that is armed fires
\* unless the call it races settles first; nothing is assumed of the LLM.
LiveSpec ==
    /\ Spec
    /\ \A r \in Reqs :
          /\ WF_vars(Start(r))
          /\ WF_vars(OutlineTimeout(r))
          /\ WF_vars(SlideTimeout(r))
          /\ WF_vars(VisualTimeout(r))

(***************************************************************************)
(* The claims.                                                             *)
(***************************************************************************)
\* C1 (for the requests with a whole slide_count): whenever the route
\* answers 200, deck.slides has exactly slide_count entries.
C1_ExactSlideCount ==
    \A r \in Reqs :
        (response[r].status = 200 /\ IsWhole(meta[r].slide_count))
            => Whole(Len(response[r].deck.slides)) = meta[r].slide_count

\* C2 (for a whole slide_count that the route's schema admits): when the LLM
\* answers JSON with at least one section and every section's slides an
\* array, the outline generateOutline returns holds exactly
\* params.slide_count slides.
C2_OutlineExactCount ==
    (/\ result.status = "resolved"
     /\ IsWhole(params.slide_count)
     /\ params.slide_count >= Whole(MinSlideCount)
     /\ reply.kind = "outline"
     /\ Len(reply.sections) >= 1
     /\ \A i \in 1..Len(reply.sections) : reply.sections[i].has_slides)
        => Whole(Sum([i \in 1..Len(result.value.sections) |->
                         Len(result.value.sections[i].slides)])) = params.slide_count

\* C3: on the fallback path (LLM error, unparseable output) the sections
\* generateOutline builds hold exactly slide_count slides, for every
\* positive integer slide_count.
C3_FallbackExactCount ==
    (/\ result.status = "resolved"
     /\ reply.kind \in {"error", "text"}
     /\ IsWhole(params.slide_count)
     /\ params.slide_count > 0)
        => Whole(Sum([i \in 1..Len(result.value.sections) |->
                         Len(result.value.sections[i].slides)])) = params.slide_count

\* C4: a slot whose generateSlide or generateVisual step threw or lost the
\* race against its timer gets the fallback slide (the slot's layout and
\* title, the placeholder bullet) at the slot's place, the loop goes on over
\* the remaining slots, and the response of a request with such slots is 200
\* with one slide for every slot of the outline.
C4_SlotFailureIsolated ==
    \A r \in Reqs :
        LET slots == Slots(outline[r].sections)
        IN  /\ \A i \in failed[r] :
                  /\ i <= Len(slides[r])
                  /\ slides[r][i].layout = slots[i].layout
                  /\ slides[r][i].title = slots[i].title
                  /\ slides[r][i].bullets = <<"Content generation in progress...">>
            /\ (failed[r] # {} /\ pc[r] # "done")
                  => /\ pc[r] \in {"slide", "visual"}
                     /\ response[r].status = 0
                     /\ Len(slides[r]) = currentSlide[r] - 1
            /\ (failed[r] # {} /\ pc[r] = "done")
                  => /\ response[r].status = 200
                     /\ response[r].deck.slides = slides[r]
                     /\ Len(slides[r]) = Len(slots)

\* A deck is returned in which a slot failed and the next slot was generated.
C4_Witness ==
    \E r \in Reqs :
        /\ pc[r] = "done"
        /\ response[r].status = 200
        /\ \E i \in failed[r] :
              /\ i < Len(response[r].deck.slides)
              /\ (i + 1) \notin failed[r]
              /\ response[r].deck.slides[i + 1].bullets
                     # <<"Content generation in progress...">>

\* C5: generateOutline never rejects, and when the LLM call fails, its
\* content is no JSON, or the JSON has no sections member, one that is no
\* array, or an empty one, it resolves with the fallback outline, titled
\* from the topic.
C5_OutlineNeverRejects ==
    /\ result.status # "rejected"
    /\ (/\ result.status = "resolved"
        /\ \/ reply.kind \in {"error", "text", "no_sections", "bad_sections"}
           \/ Len(reply.sections) = 0)
          => /\ result.value.title
                    = "**" \o params.topic_or_prompt_or_instructions
                           \o "**: Key Insights & Analysis"
             /\ Len(result.value.sections) >= 2
             /\ result.value.sections[1].name = "Opening"
             /\ result.value.sections[2].name = "Analysis"

\* The LLM answered JSON whose sections member is no array, and the call
\* resolved with the fallback outline for the topic AI.
C5_Witness ==
    /\ result.status = "resolved"
    /\ reply.kind = "bad_sections"
    /\ result.value.title = "**AI**: Key Insights & Analysis"

\* C6: with the timers firing, every request is eventually answered with
\* status 200, 400 or 500, whatever the LLM does.
C6_EveryRequestAnswered ==
    \A r \in Reqs :
        (pc[r] = "start") ~> (pc[r] = "done" /\ response[r].status \in {200, 400, 500})

\* A request is answered although the one LLM call started for it is still
\* unanswered.
C6_Witness ==
    \E r \in Reqs :
        /\ pc[r] = "done"
        /\ response[r].status = 500
        /\ llmCalls[r] = 1
        /\ inflight[r] = 1

\* C7: at every moment at most one LLM call started for a request is still
\* in flight.
C7_OneCallInFlight == \A r \in Reqs : inflight[r] <= 1

\* The fields of a parsed body that violate the schema as C8 lists them.
C8_Offending(b) ==
    {f \in {"mode", "tone", "audience", "theme", "slide_count"} :
        CASE f = "mode"        -> b.mode \notin {"quick_prompt", "doc_to_deck"}
          [] f = "tone"        -> b.tone \notin {"professional", "casual", "academic",
                                                 "persuasive", Absent}
          [] f = "audience"    -> b.audience \notin {"general", "executives", "technical",
                                                     "students", Absent}
          [] f = "theme"       -> b.theme \notin {"deep_space", "ultra_violet", "minimal",
                                                  "corporate", Absent}
          [] f = "slide_count" -> /\ b.slide_count.kind = "number"
                                  /\ \/ b.slide_count.value < Whole(3)
                                     \/ b.slide_count.value > Whole(50)}

\* C8: the handler's first step on a parsed body that violates the schema
\* answers 400 'Invalid request data' with the offending fields among the
\* details, having parsed no document and started no LLM call; and no
\* request answered 400 ever parsed a document or called the LLM.
C8_InvalidBodyIs400 ==
    /\ [](\A r \in Reqs :
             response[r].status = 400
                => llmCalls[r] = 0 /\ inflight[r] = 0 /\ ~parsedDocs[r] /\ pc[r] = "done")
    /\ [][\A r \in Reqs :
             (/\ pc[r] = "start"
              /\ pc'[r] # "start"
              /\ request[r].wellformed
              /\ C8_Offending(request[r]) # {})
                => /\ pc'[r] = "done"
                   /\ response'[r].status = 400
                   /\ response'[r].error = "Invalid request data"
                   /\ C8_Offending(request[r]) \subseteq response'[r].details
                   /\ llmCalls'[r] = 0
                   /\ inflight'[r] = 0
                   /\ ~parsedDocs'[r]]_vars

\* A request whose slide_count is outside the schema's range was answered
\* 400.
C8_Witness ==
    \E r \in Reqs :
        /\ response[r].status = 400
        /\ response[r].details = {"slide_count"}

\* The slides of a request that runs alone, from the slot k on, when its
\* awaited slide and visual calls are answered as entries tells.
RECURSIVE AloneSlides(_, _, _, _)
AloneSlides(slots, k, entries, theme) ==
    IF k > Len(slots) \/ Len(entries) = 0 THEN <<>>
    ELSE IF \/ entries[1].reply = "timeout"
            \/ generateSlide(slots[k], "", entries[1].reply).status = "rejected"
    THEN <<FallbackSlide(slots[k])>> \o AloneSlides(slots, k + 1, Tail(entries), theme)
    ELSE IF Len(entries) = 1 THEN <<>>
    ELSE LET d      == generateSlide(slots[k], "", entries[1].reply).value
             visual == generateVisual(d.title, d.bullets, image_style(theme),
                                      entries[2].reply)
         IN  << IF entries[2].reply = "timeout" \/ visual.isNull
                THEN FallbackSlide(slots[k])
                ELSE DeckSlide(slots[k], d, visual) >>
             \o AloneSlides(slots, k + 1, Tail(Tail(entries)), theme)

\* The response of a request that runs alone with the body and the answers
\* of the history lg.
AloneResponse(lg) ==
    LET b == lg[1].body
        m == Normalize(b)
        p == [ slide_count                     |-> m.slide_count,
               audience                        |-> m.audience,
               tone                            |-> m.tone,
               topic_or_prompt_or_instructions |-> TopicOf(b),
               doc_summary_or_empty            |-> "" ]
    IN  IF ~b.wellformed THEN ErrorResponse(SyntaxErrorMessage)
        ELSE IF SchemaIssues(b) # {} THEN InvalidResponse(SchemaIssues(b))
        ELSE IF lg[2].reply = "timeout" THEN ErrorResponse(OutlineTimeoutMessage)
        ELSE LET adjusted == RouteAdjust(generateOutline(p, lg[2].outline).value,
                                         m.slide_count)
             IN  IF adjusted.threw THEN ErrorResponse(TypeErrorMessage)
                 ELSE OkResponse([ title  |-> adjusted.value.title,
                                   theme  |-> m.theme,
                                   slides |-> AloneSlides(Slots(adjusted.value.sections), 1,
                                                          SubSeq(lg, 3, Len(lg)), m.theme) ])

\* C9: in every interleaving of two concurrent requests, the response of
\* each is the one the request gets alone with the same body and the same
\* LLM answers and timer outcomes, and its count of LLM calls is that of its
\* own history.
C9_RequestsIsolated ==
    \A r \in Reqs :
        pc[r] = "done"
            => /\ response[r] = AloneResponse(log[r])
               /\ llmCalls[r] = Len(log[r]) - 1

\* Both requests are answered 200 with different decks, a slot of r1 having
\* failed and none of r2.
C9_Witness ==
    /\ pc["r1"] = "done" /\ pc["r2"] = "done"
    /\ response["r1"].status = 200 /\ response["r2"].status = 200
    /\ response["r1"].deck # response["r2"].deck
    /\ failed["r1"] # {} /\ failed["r2"] = {}

\* C10: when every LLM call of a request is answered with a connection
\* error (none is left to its timer), the route answers 500 with the
\* 'Cannot connect to AI service' message.
C10_UnreachableIs500 ==
    \A r \in Reqs :
        (pc[r] = "done" /\ llm = "down" /\ llmCalls[r] > 1 /\ failed[r] = {})
            => /\ response[r].status = 500
               /\ response[r].error = "Cannot connect to AI service. Please ensure Ollama is running on http://localhost:11434 or configure your LLM provider in environment variables."

\* C11: when the 60 s timer of the outline fires first, the route answers
\* 500, no slide generation has been started, and the error is the timeout
\* message 'Request timed out. The AI service may be slow or unavailable.
\* Please try again.'.
C11_OutlineTimeoutClassified ==
    [][\A r \in Reqs :
          OutlineTimeout(r)
             => /\ response'[r].status = 500
                /\ llmCalls'[r] = 1
                /\ slides'[r] = <<>>
                /\ response'[r].error = "Request timed out. The AI service may be slow or unavailable. Please try again."]_vars

\* The LLM answered an outline whose sections all carry a slides array, and
\* the requested count is whole and one the route's schema admits.
WellFormedOutlineCall ==
    /\ result.status = "resolved"
    /\ reply.kind = "outline"
    /\ Len(reply.sections) >= 1
    /\ \A i \in 1..Len(reply.sections) : reply.sections[i].has_slides
    /\ IsWhole(params.slide_count)
    /\ params.slide_count >= Whole(MinSlideCount)

\* C12: when the LLM's outline holds more slides than requested,
\* generateOutline removes exactly total - slide_count slides, all from the
\* end of the last section, also when the last section holds fewer slides
\* than the excess; the earlier sections are left as they are.
C12_RemovesExactExcess ==
    LET n     == Len(reply.sections)
        total == TotalSlides(reply.sections)
        out   == result.value.sections
    IN  (WellFormedOutlineCall /\ Whole(total) > params.slide_count)
            => /\ Len(out) = n
               /\ \A i \in 1..(n - 1) : out[i] = reply.sections[i]
               /\ Len(out[n].slides) <= Len(reply.sections[n].slides)
               /\ out[n].slides = SubSeq(reply.sections[n].slides, 1, Len(out[n].slides))
               /\ Whole(total - TotalSlides(out)) = Whole(total) - params.slide_count

\* What generateOutline resolved with and what the route's reconciliation
\* makes of the LLM's outline: the two places the count is reconciled.
C13_Reconciled ==
    {result.value,
     RouteAdjust([title |-> reply.title, sections |-> reply.sections],
                 params.slide_count).value}

C14_ReconcileIdempotent ==
    (/\ result.status = "resolved"
     /\ IsWhole(params.slide_count)
     /\ params.slide_count >= Whole(MinSlideCount)
     /\ \A i \in 1..Len(result.value.sections) : result.value.sections[i].has_slides)
        => RouteAdjust(result.value, params.slide_count) = Returned(result.value)

\* C15: in every 200 response the deck has one slide for each slot of the
\* outline the slot loop walked, in the order of the slots; the i-th slide
\* has the layout of the i-th slot, generated or fallback (a fallback slide
\* has the slot's title too); deck.title is the outline's title and
\* deck.theme the theme of the request.
C15_DeckFollowsOutline ==
    \A r \in Reqs :
        response[r].status = 200
            => LET slots == Slots(outline[r].sections)
                   deck  == response[r].deck
               IN  /\ Len(deck.slides) = Len(slots)
                   /\ \A i \in 1..Len(slots) :
                         /\ deck.slides[i].layout = slots[i].layout
                         /\ i \in failed[r] => deck.slides[i].title = slots[i].title
                   /\ deck.title = outline[r].title
                   /\ deck.theme = meta[r].theme

\* A deck in the theme minimal with a generated chart slide that is not the
\* first slide, and a fallback slide.
C15_Witness ==
    \E r \in Reqs :
        /\ response[r].status = 200
        /\ response[r].deck.theme = "minimal"
        /\ failed[r] # {}
        /\ \E i \in 2..Len(response[r].deck.slides) :
              /\ i \notin failed[r]
              /\ response[r].deck.slides[i].layout = "chart"

\* C16: a slide pushed for a slot is never altered afterwards and slides are
\* pushed only by the handler for the slot it is at, one per slot; a step in
\* which an LLM call settles that the handler no longer awaits (its timer
\* has fired) leaves the slides, the slot the handler is at and the
\* response as they are.
C16_LateResultDiscarded ==
    /\ [](\A r \in Reqs :
             /\ pc[r] \in {"slide", "visual"} => Len(slides[r]) = currentSlide[r] - 1
             /\ Len(slides[r]) <= Len(Slots(outline[r].sections)))
    /\ [][\A r \in Reqs :
             /\ Len(slides'[r]) >= Len(slides[r])
             /\ SubSeq(slides'[r], 1, Len(slides[r])) = slides[r]
             /\ Len(slides'[r]) > Len(slides[r])
                   => /\ Len(slides'[r]) = Len(slides[r]) + 1
                      /\ pc[r] \in {"slide", "visual"}
                      /\ pc'[r] # pc[r] \/ currentSlide'[r] # currentSlide[r]
             /\ (inflight'[r] < inflight[r] /\ pc'[r] = pc[r])
                   => /\ slides'[r] = slides[r]
                      /\ currentSlide'[r] = currentSlide[r]
                      /\ response'[r] = response[r]]_vars

\* The three slide calls of a request all lost against their timers and all
\* settled later; the deck holds the three fallback slides.
C16_Witness ==
    \E r \in Reqs :
        /\ response[r].status = 200
        /\ failed[r] = {1, 2, 3}
        /\ llmCalls[r] = 4
        /\ inflight[r] = 0
        /\ \A i \in 1..3 :
              response[r].deck.slides[i].bullets = <<"Content generation in progress...">>

\* C17: when the 10 s timer of the visual fires first, the slide pushed for
\* the slot keeps the title and the bullets generateSlide returned for it.
C17_VisualTimeoutKeepsContent ==
    [][\A r \in Reqs :
          VisualTimeout(r)
             => /\ slides'[r][currentSlide[r]].title = draft[r].title
                /\ slides'[r][currentSlide[r]].bullets = draft[r].bullets]_vars

\* C18: generateSlide never rejects when its slide_context is an object,
\* and when the LLM call fails or its output cannot be parsed or
\* post-processed it resolves with the fallback slide for the slot's title:
\* title '**<title>**: Overview', three bullets, empty notes, chart_spec
\* null, two citations and an image.
C18_SlideNeverRejects ==
    /\ result.status # "rejected"
    /\ (/\ result.status = "resolved"
        /\ reply \in {"error", "text", "json_null", "json_string_image"}
        /\ IsString(params.slide_context.title)
        /\ params.slide_context.title # "")
          => /\ result.value.title = "**" \o params.slide_context.title \o "**: Overview"
             /\ Len(result.value.bullets) = 3
             /\ result.value.notes = ""
             /\ result.value.chart_spec = "null"
             /\ Len(result.value.citations) = 2
             /\ result.value.image.kind = "object"

\* C19: every value generateSlide resolves with has an image object whose
\* source is not missing, not empty and not 'placeholder'; when the LLM's
\* slide has no image, or an image with a missing, empty or 'placeholder'
\* source, the source is the Unsplash URL built from the slot's title, and
\* on the fallback path it is the one built from the title or 'Key
\* Concepts'; a source the LLM gave is kept.
C19_ImageSourcePresent ==
    LET title == params.slide_context.title
        image == result.value.image
        made  == generateUnsplashUrl(OrElse(title, "Key Concepts"))
    IN  result.status = "resolved"
            => /\ image.kind = "object"
               /\ image.source \notin {Absent, "", "placeholder"}
               /\ SubSeq(image.source, 1, 8) = "https://"
               /\ reply = "json"
                     => image.source = LLMDraft(params.slide_context).image.source
               /\ (/\ reply \in {"json_no_image", "json_no_source",
                                  "json_empty_source", "json_placeholder"}
                   /\ IsString(title))
                     => image.source = generateUnsplashUrl(title)
               /\ (\/ reply \in {"error", "text", "json_null", "json_string_image"}
                   \/ (reply # "json" /\ ~IsString(title)))
                     => image.source = made

\* The LLM wrote source 'placeholder' for the slot 'AI in Healthcare:
\* Trends': the slide has the URL of the keywords Healthcare and Trends.
C19_Witness ==
    /\ result.status = "resolved"
    /\ reply = "json_placeholder"
    /\ params.slide_context.title = "AI in Healthcare: Trends"
    /\ result.value.title = "**LLM** AI in Healthcare: Trends"
    /\ result.value.image.source = "https://source.unsplash.com/800x600/?Healthcare%2CTrends"

\* The file name C20 expects for each document URL.
C20_Name(url) ==
    CASE url = "https://files.example/docs/report.pdf" -> "report"
      [] url = "https://cdn.example/a/report.docx"     -> "report"
      [] url = "https://files.example/docs/"           -> "document"
      [] url = "notes"                                 -> "notes"
      [] url = "https://x.example/archive.tar.gz"      -> "archive.tar"
      [] url = "https://x.example/data."               -> "data."
      [] url = "https://x.example/q3-2024.xlsx"        -> "q3-2024"

\* C20: parseDocuments is called exactly for the requests in mode
\* doc_to_deck that carry assets.doc_urls; the summary is made of the file
\* names of the URLs alone and is empty for an empty list (and when nothing
\* is parsed); the per-slide facts generateSlide is given are always the
\* empty string; and no slide ever gets a chart spec from a document.
C20_DocumentParsingStub ==
    /\ [](\A r \in Reqs :
             /\ slideFacts[r] \subseteq {""}
             /\ draft[r].chart_spec = "null"
             /\ \A i \in 1..Len(slides[r]) : slides[r][i].chart_spec = "null")
    /\ [][\A r \in Reqs :
             (pc[r] = "start" /\ pc'[r] # "start")
                => LET b == request[r]
                   IN  /\ parsedDocs'[r] <=> (b.mode = "doc_to_deck" /\ b.has_doc_urls)
                       /\ docSummary'[r] =
                             IF parsedDocs'[r] /\ Len(b.doc_urls) > 0
                             THEN "Documents uploaded: "
                                  \o Join([i \in 1..Len(b.doc_urls) |-> C20_Name(b.doc_urls[i])], ", ")
                                  \o SummaryNote
                             ELSE ""]_vars

\* A doc_to_deck request with two documents got its deck: the summary names
\* report and archive.tar, and every generateSlide call got empty facts.
C20_Witness ==
    \E r \in Reqs :
        /\ response[r].status = 200
        /\ parsedDocs[r]
        /\ docSummary[r] = "Documents uploaded: report, archive.tar" \o SummaryNote
        /\ slideFacts[r] = {""}
        /\ Len(response[r].deck.slides) = 3

\* What lines 22-32 of cleanJSONResponse leave of the answer: the answer
\* trimmed, without its code fence and without the word it begins with.
C21_Stripped == RemovePrefix(RemoveFence(trim(reply)))

====
